---- MODULE Spec2Model ----
(***************************************************************************)
(* Scholarship portal backend (Express + mysql2): the relational store,    *)
(* the shared connection pool and the request handlers of server.js and of *)
(* its later revision (src/unnamed/part_000), as one state machine.        *)
(*                                                                         *)
(* Store semantics assumed throughout (MySQL/InnoDB, default isolation):   *)
(*   - a statement either succeeds with its effect or throws with none;    *)
(*   - rows written inside a transaction are visible to other connections  *)
(*     only after COMMIT; AUTO_INCREMENT values are never handed out twice *)
(*     (a rolled-back insert leaves a gap);                                *)
(*   - COMMIT or ROLLBACK can only throw on a connection-level fault, and  *)
(*     the server then discards the session's open transaction.            *)
(***************************************************************************)
EXTENDS Integers, Sequences, FiniteSets, TLC

\* ------------------------------------------------------------------ bounds
PoolSize == 2      \* connections of the shared pool
MaxClock == 1      \* store timestamps are 0..MaxClock
MaxRows == 3       \* rows of table applications when a review session starts

\* ---------------------------------------------------------------- constants
\* a JSON value as JavaScript sees it: undefined (field missing) or a number
Undefined == [t |-> "undefined", v |-> 0]
Num(n) == [t |-> "number", v |-> n]

\* the POST /api/register requests in flight
RegReqs == {"r1", "r2"}

\* the POST /api/apply requests in flight: two, so that they can contend for
\* the pool and interleave their transactions
ApplyReqs == {"a1", "a2"}

Timestamps == 0..MaxClock

\* field names accepted by applyUpload (upload.fields)
UploadFields == {"photo", "mark10"}

\* data.amount_applied as JavaScript sees it: undefined (field missing), null,
\* a number (n) or a string (s)
NoAmount == [t |-> "undefined", n |-> 0, s |-> ""]
NullAmount == [t |-> "null", n |-> 0, s |-> ""]
AmountNum(n) == [t |-> "number", n |-> n, s |-> ""]
AmountStr(x) == [t |-> "string", n |-> 0, s |-> x]

\* req.body.data as received: no field, a string that is not JSON, the JSON
\* text null, or a JSON object with (possibly missing or zero) references
Refs == {Undefined, Num(0), Num(1)}
Payloads ==
    {[kind |-> k, user_id |-> Undefined, scheme_id |-> Undefined, amount_applied |-> NoAmount]
        : k \in {"absent", "malformed", "null"}}
    \cup {[kind |-> "object", user_id |-> u, scheme_id |-> s, amount_applied |-> NoAmount]
            : u \in Refs, s \in Refs}

\* JavaScript !x for a parsed reference: true for undefined and for 0
Falsy(x) == x.t = "undefined" \/ (x.t = "number" /\ x.v = 0)

\* multer({dest}) stores each upload under a generated name, unique per upload
StoredName(p, f) == <<p, f>>

VARIABLES
    users,          \* rows of table users
    nextUserId,     \* AUTO_INCREMENT of users
    schemes,        \* rows of table schemes (the catalog; read-only here)
    applications,   \* committed rows of table applications
    documents,      \* committed rows of table documents
    nextAppId,      \* AUTO_INCREMENT of applications
    nextDocId,      \* AUTO_INCREMENT of documents
    uploads,        \* files in uploads/ (the Document Store)
    free,           \* connections idle in the pool
    apply,          \* apply request -> state of its handler
    detail,         \* the GET /api/application/:id request in flight
    emailKey,       \* whether table users declares email UNIQUE
    reg,            \* register request -> state of its handler
    admin,          \* the admin's last request and its response
    browse,         \* the last GET /api/schemes request and its response
    stats,          \* the GET /api/admin/stats request in flight
    login,          \* the POST /api/login request in flight
    server,         \* the process: its startup check and its listen calls
    mine,           \* the last GET /api/my-applications/:userId and its response
    seen            \* the count triples of all store states so far (history)

storeVars == <<users, nextUserId, emailKey, schemes, applications, documents, nextAppId, nextDocId>>
\* the requests and process state of the routes outside the workflow core
rest == <<stats, login, server, mine>>
vars == <<storeVars, uploads, free, apply, detail, reg, admin, browse, rest, seen>>
\* request state outside the apply handler, and outside the detail handler
notApply == <<detail, reg, admin, browse, rest>>
notDetail == <<uploads, free, apply, reg, admin, browse, rest>>

\* the triple GET /api/admin/stats reports for a store state
CountsOf(us, ss, as) ==
    <<Cardinality(us), Cardinality(ss), Cardinality({a \in as : a.status = "Pending"})>>

EmptyTx == [apps |-> {}, docs |-> {}]
NoPayload ==
    [kind |-> "absent", user_id |-> Undefined, scheme_id |-> Undefined, amount_applied |-> NoAmount]
\* responses: status 0 stands for "no response was sent"
NoResponse == [status |-> 0, applicationId |-> 0]
Response(st) == [status |-> st, applicationId |-> 0]

\* an apply handler before its request arrives
\*   pc      position in the handler
\*   data    req.body.data
\*   files   the fields of req.files
\*   conn    the handler's variable connection: "undefined", "held", "released"
\*   tx      uncommitted rows written on its connection
\*   appId   r[0].insertId (0 before the insert)
\*   resp    the response sent
\*   failed  the store step that threw ("none" if none did)
\*   rolled  connection.rollback() was issued
\*   escaped an exception left the handler uncaught
\*   nresp   number of responses sent
ApplyIdle ==
    [pc |-> "idle", data |-> NoPayload, files |-> {}, conn |-> "undefined",
     tx |-> EmptyTx, appId |-> 0, resp |-> NoResponse, failed |-> "none",
     rolled |-> FALSE, escaped |-> FALSE, nresp |-> 0]

\* Text that the scheme filters inspect is a sequence of characters; the SQL
\* NULL of a text column is the one-element sequence <<"NULL">>, which no
\* text equals. A NULL application_deadline is NoDeadline.
Null == <<"NULL">>
NoDeadline == 0

\* rows that table schemes may hold; the catalog is maintained outside the server
CatalogPool ==
    {[id |-> 1, scheme_name |-> <<"M", "1">>, scholarship_name |-> <<"A">>,
      academic_year |-> <<"4">>, type |-> <<"U">>, category |-> <<"G">>,
      is_international_eligible |-> "1", application_deadline |-> 2],
     [id |-> 2, scheme_name |-> <<"N">>, scholarship_name |-> <<"B">>,
      academic_year |-> <<"4">>, type |-> <<"P">>, category |-> <<"O">>,
      is_international_eligible |-> "0", application_deadline |-> 1],
     [id |-> 3, scheme_name |-> <<"N">>, scholarship_name |-> <<"M">>,
      academic_year |-> <<"5">>, type |-> <<"U">>, category |-> <<"G">>,
      is_international_eligible |-> "NULL", application_deadline |-> NoDeadline]}

\* table schemes as seeded for the application workflow
SeedCatalog == {s \in CatalogPool : s.id = 1}

NoAppRow ==
    [id |-> 0, user_id |-> 0, scheme_id |-> 0, amount_applied |-> NullAmount,
     status |-> "none", application_date |-> 0, scheme_name |-> Null]
NoDetailResponse == [status |-> 0, application |-> NoAppRow, documents |-> {}]
\* the detail handler before its request arrives
\*   id      req.params.id
\*   appRow  the row the first query returned
\*   resp    the response sent
\*   known   the application ids apply had already returned when the request
\*           arrived (history, not program state)
DetailIdle == [pc |-> "idle", id |-> 0, appRow |-> NoAppRow, resp |-> NoDetailResponse, known |-> {}]

\* req.query of GET /api/schemes: each parameter a text, empty when absent
NoQuery == [q |-> <<>>, academic_year |-> <<>>, type |-> <<>>, category |-> <<>>,
            international |-> <<>>]
BrowseIdle == [handler |-> "none", query |-> NoQuery, status |-> 0, rows |-> <<>>]

\* table users as seeded: one registered applicant
\* bcrypt.hash(password, 10), kept symbolic
Hash(pw) == <<"bcrypt", pw>>
SeedUsers ==
    {[id |-> 1, name |-> "Asha", email |-> "a@x", password_hash |-> Hash("pw"), role |-> "user"]}

\* the register handler before its request arrives
\*   name, email, password   req.body ("" for a missing field)
\*   resp    the response sent
\*   fault   a store or bcrypt step threw for a reason other than the email key
RegIdle ==
    [pc |-> "idle", name |-> "", email |-> "", password |-> "",
     resp |-> [status |-> 0, userId |-> 0], fault |-> FALSE]
\* the admin console before its first request
\*   op      "approve", "reject" or "pending" (the pending-applications list)
\*   id      req.params.id (0 for the list)
\*   status, rows   the response: HTTP status and, for the list, its rows
\*   handler the revision whose list handler answered
AdminIdle == [op |-> "none", id |-> 0, status |-> 0, rows |-> <<>>, handler |-> "none"]
AdminResponse(op, id, st) == [op |-> op, id |-> id, status |-> st, rows |-> <<>>, handler |-> "none"]
ListResponse(h, st, rows) == [op |-> "pending", id |-> 0, status |-> st, rows |-> rows, handler |-> h]

\* the stats handler before its request arrives
\*   users, schemes, pending   the counts its queries returned
\*   status  the response status (0: none sent)
StatsIdle == [pc |-> "idle", users |-> 0, schemes |-> 0, pending |-> 0, status |-> 0]

\* the POST /api/login requests in flight: two, so that their responses can
\* be compared
LoginReqs == {"l1", "l2"}

\* req.body.password after express.json(): a missing field, a JSON string or
\* a JSON number (its digits in s)
NoPassword == [t |-> "undefined", s |-> ""]
Str(x) == [t |-> "string", s |-> x]
Digits(x) == [t |-> "number", s |-> x]

\* the login handler before its request arrives
\*   email, password  req.body (email "" for a missing field)
\*   user    the row the SELECT returned (NoUser if none)
\*   resp    the response sent: status, error text, user object
\*   fault   the store threw
NoUser == [id |-> 0, name |-> "", email |-> "", password_hash |-> <<>>, role |-> ""]
NoLoginResponse == [status |-> 0, error |-> "", user |-> NoUser]
LoginIdle ==
    [pc |-> "idle", email |-> "", password |-> NoPassword, user |-> NoUser,
     resp |-> NoLoginResponse, fault |-> FALSE]

\* the process once it serves requests
\*   pc        "load" (module body running), "testing" (startup check
\*             pending), "up", "exited"
\*   listens   number of app.listen calls so far
\*   tested    the startup pool.getConnection() has resolved
\*   early     app.listen was called before the startup check resolved
\*   revision  the source file that is running
Serving == [pc |-> "up", listens |-> 1, tested |-> TRUE, early |-> FALSE, revision |-> "part_000"]

\* the my-applications listing before its first request
\*   userId  req.params.userId
\*   status, rows   the response
\*   dirty   the ids of the uncommitted Application rows when the query ran
\*           (history, not program state)
MineIdle == [userId |-> 0, status |-> 0, rows |-> <<>>, dirty |-> {}]

\* no request in flight, the pool idle, uploads/ empty
Quiet ==
    /\ uploads = {}
    /\ free = PoolSize
    /\ apply = [p \in ApplyReqs |-> ApplyIdle]
    /\ detail = DetailIdle
    /\ reg = [p \in RegReqs |-> RegIdle]
    /\ admin = AdminIdle
    /\ browse = BrowseIdle
    /\ stats = StatsIdle
    /\ login = [p \in LoginReqs |-> LoginIdle]
    /\ server = Serving
    /\ mine = MineIdle
    /\ seen = {CountsOf(users, schemes, applications)}

Init ==
    /\ users = SeedUsers
    /\ nextUserId = 2
    /\ emailKey = TRUE
    /\ schemes = SeedCatalog
    /\ applications = {}
    /\ documents = {}
    /\ nextAppId = 1
    /\ nextDocId = 1
    /\ Quiet

\* ------------------------------------------------------- POST /api/apply
\* res.status(st).json(...) / res.json(...)
Send(a, r) == [a EXCEPT !.resp = r, !.nresp = @ + 1]

\* an await inside the try block throws: control enters the catch block. With
\* no connection yet, catch and finally run to the end without awaiting;
\* otherwise the handler awaits connection.rollback().
Throw(a, step) ==
    IF a.conn = "held"
    THEN [a EXCEPT !.failed = step, !.pc = "rollback"]
    ELSE [Send(a, Response(500)) EXCEPT !.failed = step, !.pc = "done"]

\* the position after the Application insert and after each Document insert
AfterInsert(fs, done) ==
    IF "photo" \in fs /\ "photo" \notin done THEN "insertPhoto"
    ELSE IF "mark10" \in fs /\ "mark10" \notin done THEN "insertMark10"
    ELSE "commit"

\* mutant of ApplyValidate: only the user reference is checked
ApplyValidateUserOnly(a) ==
    IF a.data.kind \in {"malformed", "null"}
    THEN [Send(a, Response(500)) EXCEPT !.pc = "done"]
    ELSE IF Falsy(a.data.user_id)
    THEN [Send(a, Response(400)) EXCEPT !.pc = "done"]
    ELSE [a EXCEPT !.pc = "getConnection"]

\* the handler's synchronous prefix: parse req.body.data, check the references
ApplyValidate(a) ==
    IF a.data.kind \in {"malformed", "null"}
    THEN \* JSON.parse throws, or destructuring null throws: caught, 500
         [Send(a, Response(500)) EXCEPT !.pc = "done"]
    ELSE IF Falsy(a.data.user_id) \/ Falsy(a.data.scheme_id)
    THEN [Send(a, Response(400)) EXCEPT !.pc = "done"]
    ELSE [a EXCEPT !.pc = "getConnection"]

\* the request arrives: multer stores the uploaded files, then the handler
\* runs up to its first await
ApplyRequest(p, d, fs) ==
    /\ apply[p].pc = "idle"
    /\ uploads' = uploads \cup {StoredName(p, f) : f \in fs}
    /\ apply' = [apply EXCEPT ![p] = ApplyValidate([@ EXCEPT !.data = d, !.files = fs])]
    /\ UNCHANGED <<storeVars, free, notApply, seen>>

\* connection = await pool.getConnection()
ApplyGetConnection(p, ok) ==
    /\ apply[p].pc = "getConnection"
    /\ IF ok
       THEN /\ free > 0
            /\ free' = free - 1
            /\ apply' = [apply EXCEPT ![p] = [@ EXCEPT !.conn = "held", !.pc = "beginTransaction"]]
       ELSE /\ free' = free
            /\ apply' = [apply EXCEPT ![p] = Throw(@, "getConnection")]
    /\ UNCHANGED <<storeVars, uploads, notApply, seen>>

\* await connection.beginTransaction()
ApplyBeginTransaction(p, ok) ==
    /\ apply[p].pc = "beginTransaction"
    /\ apply' = [apply EXCEPT ![p] =
                    IF ok THEN [@ EXCEPT !.pc = "insertApplication"]
                    ELSE Throw(@, "beginTransaction")]
    /\ UNCHANGED <<storeVars, uploads, free, notApply, seen>>

\* data.amount_applied || null: the third parameter of the INSERT
AmountFalsy(v) ==
    v.t \in {"undefined", "null"} \/ (v.t = "number" /\ v.n = 0) \/ (v.t = "string" /\ v.s = "")
AmountParam(v) == IF AmountFalsy(v) THEN NullAmount ELSE v

\* what column amount_applied holds for a bound parameter: NULL, the number,
\* or, for a text that is not a number, the 0 a non-strict store coerces it
\* to (a strict store rejects the statement instead)
StoredAmount(v) == IF v.t = "string" THEN AmountNum(0) ELSE v

\* const r = await connection.query('INSERT INTO applications ...')
\* the row INSERT INTO applications writes: status and application_date take
\* the column defaults
ApplicationRow(id, d, t) ==
    [id |-> id, user_id |-> d.user_id.v, scheme_id |-> d.scheme_id.v,
     amount_applied |-> StoredAmount(AmountParam(d.amount_applied)),
     status |-> "Pending", application_date |-> t]

\* mutant of ApplyInsertApplication: the insert goes through the pool's
\* autocommit query instead of the transaction's connection
ApplyInsertApplicationAutocommit(p, ok, t) ==
    /\ apply[p].pc = "insertApplication"
    /\ IF ok
       THEN /\ nextAppId' = nextAppId + 1
            /\ applications' = applications \cup {ApplicationRow(nextAppId, apply[p].data, t)}
            /\ apply' = [apply EXCEPT ![p] =
                    [@ EXCEPT !.appId = nextAppId,
                              !.pc = AfterInsert(apply[p].files, {})]]
       ELSE /\ nextAppId' = nextAppId
            /\ applications' = applications
            /\ apply' = [apply EXCEPT ![p] = Throw(@, "insertApplication")]
    /\ UNCHANGED <<users, nextUserId, emailKey, schemes, documents, nextDocId, uploads, free, notApply>>
    /\ seen' = seen \cup {CountsOf(users', schemes', applications')}

\* application_date is the statement's CURRENT_TIMESTAMP t; statements racing
\* for the AUTO_INCREMENT value may take their ids out of timestamp order
ApplyInsertApplication(p, ok, t) ==
    /\ apply[p].pc = "insertApplication"
    /\ IF ok
       THEN /\ nextAppId' = nextAppId + 1
            /\ apply' = [apply EXCEPT ![p] =
                    [@ EXCEPT !.tx.apps = @ \cup {ApplicationRow(nextAppId, apply[p].data, t)},
                              !.appId = nextAppId,
                              !.pc = AfterInsert(apply[p].files, {})]]
       ELSE /\ nextAppId' = nextAppId
            /\ apply' = [apply EXCEPT ![p] = Throw(@, "insertApplication")]
    /\ UNCHANGED <<users, nextUserId, emailKey, schemes, applications, documents,
                   nextDocId, uploads, free, notApply, seen>>

\* mutant of DocumentRow: every document is typed photo
DocumentRowTypedPhoto(id, appId, p, f) ==
    [id |-> id, application_id |-> appId, doc_type |-> "photo", filename |-> StoredName(p, f)]

\* the row INSERT INTO documents writes for upload field f of request p
DocumentRow(id, appId, p, f) ==
    [id |-> id, application_id |-> appId, doc_type |-> f, filename |-> StoredName(p, f)]

FieldAt(pc) == IF pc = "insertPhoto" THEN "photo" ELSE "mark10"
DoneBefore(pc) == IF pc = "insertPhoto" THEN {} ELSE {"photo"}

\* mutant of ApplyInsertDocument: the document is inserted through the pool's
\* autocommit query instead of the transaction's connection
ApplyInsertDocumentAutocommit(p, ok) ==
    /\ apply[p].pc \in {"insertPhoto", "insertMark10"}
    /\ LET f == FieldAt(apply[p].pc) IN
       IF ok
       THEN /\ nextDocId' = nextDocId + 1
            /\ documents' = documents \cup {DocumentRow(nextDocId, apply[p].appId, p, f)}
            /\ apply' = [apply EXCEPT ![p] =
                    [@ EXCEPT !.pc = AfterInsert(apply[p].files, DoneBefore(apply[p].pc) \cup {f})]]
       ELSE /\ nextDocId' = nextDocId
            /\ documents' = documents
            /\ apply' = [apply EXCEPT ![p] = Throw(@, apply[p].pc)]
    /\ UNCHANGED <<users, nextUserId, emailKey, schemes, applications,
                   nextAppId, uploads, free, notApply, seen>>

\* await connection.query('INSERT INTO documents ...') for photo, then mark10
ApplyInsertDocument(p, ok) ==
    /\ apply[p].pc \in {"insertPhoto", "insertMark10"}
    /\ LET f == FieldAt(apply[p].pc) IN
       IF ok
       THEN /\ nextDocId' = nextDocId + 1
            /\ apply' = [apply EXCEPT ![p] =
                    [@ EXCEPT !.tx.docs = @ \cup {DocumentRow(nextDocId, apply[p].appId, p, f)},
                              !.pc = AfterInsert(apply[p].files, DoneBefore(apply[p].pc) \cup {f})]]
       ELSE /\ nextDocId' = nextDocId
            /\ apply' = [apply EXCEPT ![p] = Throw(@, apply[p].pc)]
    /\ UNCHANGED <<users, nextUserId, emailKey, schemes, applications, documents,
                   nextAppId, uploads, free, notApply, seen>>

\* await connection.commit(); res.json({success: true, applicationId: appId})
ApplyCommit(p, ok) ==
    /\ apply[p].pc = "commit"
    /\ IF ok
       THEN /\ applications' = applications \cup apply[p].tx.apps
            /\ documents' = documents \cup apply[p].tx.docs
            /\ apply' = [apply EXCEPT ![p] =
                    [Send(@, [status |-> 200, applicationId |-> apply[p].appId])
                        EXCEPT !.tx = EmptyTx, !.pc = "finally"]]
       ELSE /\ UNCHANGED <<applications, documents>>
            /\ apply' = [apply EXCEPT ![p] = Throw(@, "commit")]
    /\ UNCHANGED <<users, nextUserId, emailKey, schemes, nextAppId, nextDocId,
                   uploads, free, notApply>>
    /\ seen' = seen \cup {CountsOf(users', schemes', applications')}

\* mutant of ApplyRollback: the catch block also unlinks the request's files
ApplyRollbackUnlink(p, ok) ==
    /\ apply[p].pc = "rollback"
    /\ apply' = [apply EXCEPT ![p] =
                    IF ok
                    THEN [Send(@, Response(500)) EXCEPT !.tx = EmptyTx, !.rolled = TRUE, !.pc = "finally"]
                    ELSE [@ EXCEPT !.tx = EmptyTx, !.rolled = TRUE, !.escaped = TRUE, !.pc = "finally"]]
    /\ uploads' = uploads \ {StoredName(p, f) : f \in apply[p].files}
    /\ UNCHANGED <<storeVars, free, notApply, seen>>

\* catch (e) { if (connection) await connection.rollback(); ...
\*             res.status(500).json({error: 'Server error'}) }
\* The transaction's rows are discarded either way; when rollback() itself
\* throws, the exception leaves the handler and no response is sent.
ApplyRollback(p, ok) ==
    /\ apply[p].pc = "rollback"
    /\ apply' = [apply EXCEPT ![p] =
                    IF ok
                    THEN [Send(@, Response(500)) EXCEPT !.tx = EmptyTx, !.rolled = TRUE, !.pc = "finally"]
                    ELSE [@ EXCEPT !.tx = EmptyTx, !.rolled = TRUE, !.escaped = TRUE, !.pc = "finally"]]
    /\ UNCHANGED <<storeVars, uploads, free, notApply, seen>>

\* mutant of ApplyRelease: the release sits at the end of the try block, so a
\* request that threw keeps its connection
ApplyReleaseInTry(p) ==
    /\ apply[p].pc = "finally"
    /\ IF apply[p].conn = "held" /\ apply[p].failed = "none"
       THEN /\ free' = free + 1
            /\ apply' = [apply EXCEPT ![p] = [@ EXCEPT !.conn = "released", !.pc = "done"]]
       ELSE /\ free' = free
            /\ apply' = [apply EXCEPT ![p] = [@ EXCEPT !.pc = "done"]]
    /\ UNCHANGED <<storeVars, uploads, notApply, seen>>

\* finally { if (connection) connection.release() }
ApplyRelease(p) ==
    /\ apply[p].pc = "finally"
    /\ IF apply[p].conn = "held"
       THEN /\ free' = free + 1
            /\ apply' = [apply EXCEPT ![p] = [@ EXCEPT !.conn = "released", !.pc = "done"]]
       ELSE /\ free' = free
            /\ apply' = [apply EXCEPT ![p] = [@ EXCEPT !.pc = "done"]]
    /\ UNCHANGED <<storeVars, uploads, notApply, seen>>

Apply(p) ==
    \/ \E d \in Payloads, fs \in SUBSET UploadFields : ApplyRequest(p, d, fs)
    \/ \E ok \in BOOLEAN : ApplyGetConnection(p, ok)
    \/ \E ok \in BOOLEAN : ApplyBeginTransaction(p, ok)
    \/ \E ok \in BOOLEAN, t \in Timestamps : ApplyInsertApplication(p, ok, t)
    \/ \E ok \in BOOLEAN : ApplyInsertDocument(p, ok)
    \/ \E ok \in BOOLEAN : ApplyCommit(p, ok)
    \/ \E ok \in BOOLEAN : ApplyRollback(p, ok)
    \/ ApplyRelease(p)

\* --------------------------------------------- GET /api/application/:id
\* s.scheme_name of the LEFT JOIN: NULL when no scheme has the id
SchemeName(sid) ==
    IF \E s \in schemes : s.id = sid
    THEN (CHOOSE s \in schemes : s.id = sid).scheme_name
    ELSE Null

\* SELECT a.*, s.scheme_name, ... FROM applications a LEFT JOIN schemes s
\* ON a.scheme_id = s.id WHERE a.id = ?   (the rows, at most one)
SelectApplication(id) ==
    {[id |-> a.id, user_id |-> a.user_id, scheme_id |-> a.scheme_id,
      amount_applied |-> a.amount_applied, status |-> a.status,
      application_date |-> a.application_date, scheme_name |-> SchemeName(a.scheme_id)]
        : a \in {r \in applications : r.id = id}}

\* SELECT * FROM documents WHERE application_id = ?
SelectDocuments(id) == {d \in documents : d.application_id = id}

\* application ids that apply has returned to a client so far
Returned == {apply[p].resp.applicationId : p \in {q \in ApplyReqs : apply[q].resp.status = 200}}

\* const appRow = await getSql(...); if (!appRow) return 404
\* pool.query takes an idle connection for the one statement
DetailQueryApplication(id, ok) ==
    /\ detail.pc = "idle"
    /\ IF ok
       THEN /\ free > 0
            /\ LET rows == SelectApplication(id) IN
               detail' =
                 IF rows = {}
                 THEN [detail EXCEPT !.pc = "responded", !.id = id, !.known = Returned,
                                     !.resp = [NoDetailResponse EXCEPT !.status = 404]]
                 ELSE [detail EXCEPT !.pc = "queryDocuments", !.id = id, !.known = Returned,
                                     !.appRow = CHOOSE r \in rows : TRUE]
       ELSE detail' = [detail EXCEPT !.pc = "responded", !.id = id, !.known = Returned,
                                     !.resp = [NoDetailResponse EXCEPT !.status = 500]]
    /\ UNCHANGED <<storeVars, notDetail, seen>>

\* const docs = await allSql(...); res.json({application: appRow, documents: docs})
DetailQueryDocuments(ok) ==
    /\ detail.pc = "queryDocuments"
    /\ IF ok
       THEN /\ free > 0
            /\ detail' = [detail EXCEPT !.pc = "responded",
                             !.resp = [status |-> 200, application |-> detail.appRow,
                                       documents |-> SelectDocuments(detail.id)]]
       ELSE detail' = [detail EXCEPT !.pc = "responded",
                             !.resp = [NoDetailResponse EXCEPT !.status = 500]]
    /\ UNCHANGED <<storeVars, notDetail, seen>>

\* the response has been delivered; the next request may arrive
DetailEnd ==
    /\ detail.pc = "responded"
    /\ detail' = DetailIdle
    /\ UNCHANGED <<storeVars, notDetail, seen>>

Detail ==
    \/ \E id \in 1..nextAppId, ok \in BOOLEAN : DetailQueryApplication(id, ok)
    \/ \E ok \in BOOLEAN : DetailQueryDocuments(ok)
    \/ DetailEnd

\* -------------------------------------------------- POST /api/register
\* req.body fields as received ("" for a missing one)
Names == {"", "Ravi"}
Emails == {"", "a@x", "b@x"}
Passwords == {"", "pw"}

RegResponse(st) == [status |-> st, userId |-> 0]

\* the request arrives: the handler validates and runs up to its first await
RegisterRequest(p, n, e, pw) ==
    /\ reg[p].pc = "idle"
    /\ reg' = [reg EXCEPT ![p] =
            IF n = "" \/ e = "" \/ pw = ""
            THEN [@ EXCEPT !.name = n, !.email = e, !.password = pw,
                           !.resp = RegResponse(400), !.pc = "done"]
            ELSE [@ EXCEPT !.name = n, !.email = e, !.password = pw, !.pc = "select"]]
    /\ UNCHANGED <<storeVars, uploads, free, apply, detail, admin, browse, rest, seen>>

\* const existing = await getSql('SELECT id FROM users WHERE email = ?')
\* if (existing) return 409
RegisterSelect(p, ok) ==
    /\ reg[p].pc = "select"
    /\ IF ok
       THEN /\ free > 0
            /\ reg' = [reg EXCEPT ![p] =
                    IF \E u \in users : u.email = reg[p].email
                    THEN [@ EXCEPT !.resp = RegResponse(409), !.pc = "done"]
                    ELSE [@ EXCEPT !.pc = "hash"]]
       ELSE reg' = [reg EXCEPT ![p] = [@ EXCEPT !.resp = RegResponse(500), !.fault = TRUE, !.pc = "done"]]
    /\ UNCHANGED <<storeVars, uploads, free, apply, detail, admin, browse, rest, seen>>

\* const hash = await bcrypt.hash(password, 10)
RegisterHash(p, ok) ==
    /\ reg[p].pc = "hash"
    /\ reg' = [reg EXCEPT ![p] =
            IF ok THEN [@ EXCEPT !.pc = "insert"]
            ELSE [@ EXCEPT !.resp = RegResponse(500), !.fault = TRUE, !.pc = "done"]]
    /\ UNCHANGED <<storeVars, uploads, free, apply, detail, admin, browse, rest, seen>>

\* const r = await runSql('INSERT INTO users ...'); res.json({success, userId})
\* With a UNIQUE key on email the insert of a taken email throws (duplicate
\* entry) and the catch block answers 500; without the key it adds the row.
RegisterInsert(p, ok) ==
    /\ reg[p].pc = "insert"
    /\ IF ~ok
       THEN /\ UNCHANGED <<users, nextUserId>>
            /\ reg' = [reg EXCEPT ![p] = [@ EXCEPT !.resp = RegResponse(500), !.fault = TRUE, !.pc = "done"]]
       ELSE /\ free > 0
            /\ IF emailKey /\ \E u \in users : u.email = reg[p].email
               THEN /\ UNCHANGED <<users, nextUserId>>
                    /\ reg' = [reg EXCEPT ![p] = [@ EXCEPT !.resp = RegResponse(500), !.pc = "done"]]
               ELSE /\ users' = users \cup
                            {[id |-> nextUserId, name |-> reg[p].name, email |-> reg[p].email,
                              password_hash |-> Hash(reg[p].password), role |-> "user"]}
                    /\ nextUserId' = nextUserId + 1
                    /\ reg' = [reg EXCEPT ![p] =
                            [@ EXCEPT !.resp = [status |-> 200, userId |-> nextUserId], !.pc = "done"]]
    /\ UNCHANGED <<emailKey, schemes, applications, documents, nextAppId, nextDocId,
                   uploads, free, apply, detail, admin, browse, rest>>
    /\ seen' = seen \cup {CountsOf(users', schemes', applications')}

Register(p) ==
    \/ \E n \in Names, e \in Emails, pw \in Passwords : RegisterRequest(p, n, e, pw)
    \/ \E ok \in BOOLEAN : RegisterSelect(p, ok)
    \/ \E ok \in BOOLEAN : RegisterHash(p, ok)
    \/ \E ok \in BOOLEAN : RegisterInsert(p, ok)

\* the users table may or may not declare email UNIQUE
InitRegister ==
    /\ users = SeedUsers
    /\ nextUserId = 2
    /\ emailKey \in BOOLEAN
    /\ schemes = SeedCatalog
    /\ applications = {}
    /\ documents = {}
    /\ nextAppId = 1
    /\ nextDocId = 1
    /\ Quiet

NextRegister == \E p \in RegReqs : Register(p)

SpecRegister == InitRegister /\ [][NextRegister]_vars

\* ------------------------------------------------------ admin review
\* u.name / u.email of LEFT JOIN users u ON a.user_id = u.id
ApplicantName(uid) ==
    IF \E u \in users : u.id = uid THEN (CHOOSE u \in users : u.id = uid).name ELSE "NULL"
ApplicantEmail(uid) ==
    IF \E u \in users : u.id = uid THEN (CHOOSE u \in users : u.id = uid).email ELSE "NULL"

\* one row of the admin listing: the application joined with its user and scheme
AdminRow(a) ==
    [id |-> a.id, application_date |-> a.application_date, status |-> a.status,
     applicant_name |-> ApplicantName(a.user_id),
     applicant_email |-> ApplicantEmail(a.user_id),
     scheme_name |-> SchemeName(a.scheme_id)]

\* every order in which a result set S can be returned
RECURSIVE Orderings(_)
Orderings(S) ==
    IF S = {} THEN {<<>>}
    ELSE UNION {{<<x>> \o f : f \in Orderings(S \ {x})} : x \in S}

\* ORDER BY a.application_date ASC: rows of equal date in any order
AscendingByDate(f) ==
    \A i, j \in DOMAIN f : i < j => f[i].application_date <= f[j].application_date

\* mutant of SelectPending: ORDER BY a.id instead of a.application_date
SelectPendingById ==
    {f \in Orderings({AdminRow(a) : a \in {r \in applications : r.status = "Pending"}}) :
        \A i, j \in DOMAIN f : i < j => f[i].id <= f[j].id}

\* SELECT ... FROM applications a LEFT JOIN users u ... LEFT JOIN schemes s ...
\* WHERE a.status = 'Pending' ORDER BY a.application_date ASC
\* (the result sets the store may return)
SelectPending ==
    {f \in Orderings({AdminRow(a) : a \in {r \in applications : r.status = "Pending"}}) :
        AscendingByDate(f)}

\* the view v_admin_applications: every application joined with its user and
\* scheme, oldest first
V_admin_applications ==
    {f \in Orderings({AdminRow(a) : a \in applications}) : AscendingByDate(f)}

\* the rows of sequence f with status Pending, in f's order
WherePending(f) == SelectSeq(f, LAMBDA r : r.status = "Pending")

\* GET /api/admin/pending-applications, server.js:
\* SELECT * FROM v_admin_applications WHERE status='Pending'
PendingApplications(ok) ==
    /\ IF ok
       THEN /\ free > 0
            /\ \E v \in V_admin_applications :
                 admin' = ListResponse("server.js", 200, WherePending(v))
       ELSE admin' = ListResponse("server.js", 500, <<>>)
    /\ UNCHANGED <<storeVars, uploads, free, apply, detail, reg, browse, rest, seen>>

\* GET /api/admin/pending-applications, the later revision: the direct JOIN
PendingApplicationsRevised(ok) ==
    /\ IF ok
       THEN /\ free > 0
            /\ \E rows \in SelectPending :
                 admin' = ListResponse("part_000", 200, rows)
       ELSE admin' = ListResponse("part_000", 500, <<>>)
    /\ UNCHANGED <<storeVars, uploads, free, apply, detail, reg, browse, rest, seen>>

\* mutant of UpdateStatus: a row is created when none has the id
UpsertStatus(id, st) ==
    IF \E a \in applications : a.id = id
    THEN {IF a.id = id THEN [a EXCEPT !.status = st] ELSE a : a \in applications}
    ELSE applications \cup {[id |-> id, user_id |-> 0, scheme_id |-> 0,
                             amount_applied |-> NullAmount, status |-> st,
                             application_date |-> 0]}

\* UPDATE applications SET status=st WHERE id=?
UpdateStatus(id, st) ==
    {IF a.id = id THEN [a EXCEPT !.status = st] ELSE a : a \in applications}

\* runSql(UPDATE ...); res.json({success: true, ...}); 500 when the store throws
SetStatus(op, id, st, ok) ==
    /\ IF ok
       THEN /\ free > 0
            /\ applications' = UpdateStatus(id, st)
            /\ admin' = AdminResponse(op, id, 200)
       ELSE /\ applications' = applications
            /\ admin' = AdminResponse(op, id, 500)
    /\ UNCHANGED <<users, nextUserId, emailKey, schemes, documents, nextAppId, nextDocId,
                   uploads, free, apply, detail, reg, browse, rest>>
    /\ seen' = seen \cup {CountsOf(users', schemes', applications')}

\* POST /api/admin/application/:id/approve
Approve(id, ok) == SetStatus("approve", id, "Approved", ok)

\* mutant of Reject: rejecting puts the application back in the review queue
Reopen(id, ok) == SetStatus("reject", id, "Pending", ok)

\* POST /api/admin/application/:id/reject
Reject(id, ok) == SetStatus("reject", id, "Rejected", ok)

\* req.params.id of the admin requests: every id in use and one that is not
AdminIds == 1..(MaxRows + 1)

\* the applications table when a review session starts: MaxRows committed
\* applications, all still Pending, submitted at any timestamps
SeedPayload ==
    [kind |-> "object", user_id |-> Num(1), scheme_id |-> Num(1), amount_applied |-> NoAmount]
FreshApplications ==
    {{ApplicationRow(i, SeedPayload, f[i]) : i \in 1..MaxRows} : f \in [1..MaxRows -> Timestamps]}

InitAdmin ==
    /\ users = SeedUsers
    /\ nextUserId = 2
    /\ emailKey = TRUE
    /\ schemes = SeedCatalog
    /\ applications \in FreshApplications
    /\ documents = {}
    /\ nextAppId = MaxRows + 1
    /\ nextDocId = 1
    /\ Quiet

NextAdmin ==
    \/ \E id \in AdminIds, ok \in BOOLEAN : Approve(id, ok)
    \/ \E id \in AdminIds, ok \in BOOLEAN : Reject(id, ok)
    \/ \E ok \in BOOLEAN : PendingApplications(ok)
    \/ \E ok \in BOOLEAN : PendingApplicationsRevised(ok)

SpecAdmin == InitAdmin /\ [][NextAdmin]_vars

\* ---------------------------------------------------- GET /api/schemes
\* String.prototype.trim
RECURSIVE TrimLeft(_)
TrimLeft(t) == IF t # <<>> /\ Head(t) = " " THEN TrimLeft(Tail(t)) ELSE t
RECURSIVE TrimRight(_)
TrimRight(t) ==
    IF t # <<>> /\ t[Len(t)] = " " THEN TrimRight(SubSeq(t, 1, Len(t) - 1)) ELSE t
Trim(t) == TrimRight(TrimLeft(t))

\* category.split(','): the pieces between the commas, in order
RECURSIVE Split(_, _)
Split(t, acc) ==
    IF t = <<>> THEN <<acc>>
    ELSE IF Head(t) = "," THEN <<acc>> \o Split(Tail(t), <<>>)
    ELSE Split(Tail(t), Append(acc, Head(t)))

\* category.split(',').map(s => s.trim()), as the set the IN (...) list denotes
Cats(t) == {Trim(Split(t, <<>>)[i]) : i \in DOMAIN Split(t, <<>>)}

\* column LIKE '%' + q + '%' (q without wildcard characters)
Like(col, q) ==
    col # Null /\ \E i \in 0..(Len(col) - Len(q)) : SubSeq(col, i + 1, i + Len(q)) = q

\* the WHERE clause built from req.query, with year and type as bound
Matches(s, query, year, type) ==
    /\ query.q # <<>> => (Like(s.scheme_name, query.q) \/ Like(s.scholarship_name, query.q))
    /\ query.academic_year # <<>> => s.academic_year = year
    /\ query.type # <<>> => s.type = type
    /\ query.category # <<>> => s.category \in Cats(query.category)
    /\ query.international = <<"1">> => s.is_international_eligible = "1"

\* ORDER BY application_deadline IS NULL, application_deadline
ByDeadline(f) ==
    \A i, j \in DOMAIN f : i < j =>
        \/ f[j].application_deadline = NoDeadline
        \/ /\ f[i].application_deadline # NoDeadline
           /\ f[i].application_deadline <= f[j].application_deadline

\* the SQL text carries a ? placeholder
HasPlaceholder(query) ==
    query.q # <<>> \/ query.academic_year # <<>> \/ query.type # <<>> \/ query.category # <<>>

\* server.js: allSql is called without params, so a statement with a
\* placeholder reaches the store with the ? in it and the store rejects it
SchemesResult(query) ==
    IF HasPlaceholder(query)
    THEN [status |-> 500, rows |-> {}]
    ELSE [status |-> 200,
          rows |-> {s \in schemes : Matches(s, query, query.academic_year, query.type)}]

\* the later revision: params are passed, year and type trimmed
SchemesResultRevised(query) ==
    [status |-> 200,
     rows |-> {s \in schemes : Matches(s, query, Trim(query.academic_year), Trim(query.type))}]

\* GET /api/schemes, answered by handler h with result r
Answer(h, query, r, ok) ==
    /\ IF ok /\ r.status = 200
       THEN /\ free > 0
            /\ \E f \in {g \in Orderings(r.rows) : ByDeadline(g)} :
                 browse' = [handler |-> h, query |-> query, status |-> 200, rows |-> f]
       ELSE browse' = [handler |-> h, query |-> query, status |-> 500, rows |-> <<>>]
    /\ UNCHANGED <<storeVars, uploads, free, apply, detail, reg, admin, rest, seen>>

\* GET /api/schemes, server.js
Schemes(query, ok) == Answer("server.js", query, SchemesResult(query), ok)

\* GET /api/schemes, the later revision
SchemesRevised(query, ok) == Answer("part_000", query, SchemesResultRevised(query), ok)

\* query strings tried
Queries ==
    [q : {<<>>, <<"M">>},
     academic_year : {<<>>, <<"4">>, <<" ", "4">>},
     type : {<<>>, <<"U">>, <<"U", " ">>},
     category : {<<>>, <<"G">>, <<"G", ",", " ", "O">>},
     international : {<<>>, <<"1">>, <<"0">>}]

InitSchemes ==
    /\ users = SeedUsers
    /\ nextUserId = 2
    /\ emailKey = TRUE
    /\ schemes \in SUBSET CatalogPool
    /\ applications = {}
    /\ documents = {}
    /\ nextAppId = 1
    /\ nextDocId = 1
    /\ Quiet

NextSchemes ==
    \/ \E query \in Queries, ok \in BOOLEAN : Schemes(query, ok)
    \/ \E query \in Queries, ok \in BOOLEAN : SchemesRevised(query, ok)

SpecSchemes == InitSchemes /\ [][NextSchemes]_vars

\* -------------------------------------------------- GET /api/admin/stats
\* SELECT COUNT(*) as c FROM users / FROM schemes
CountUsers == Cardinality(users)
CountSchemes == Cardinality(schemes)

\* mutant of CountPending: the count leaves out the WHERE clause
CountApplications == Cardinality(applications)

\* SELECT COUNT(*) as c FROM applications WHERE status = 'Pending'
CountPending == Cardinality({a \in applications : a.status = "Pending"})

\* a query of the stats handler throws: the catch block answers 500
StatsFailed == [StatsIdle EXCEPT !.pc = "responded", !.status = 500]

\* the request arrives; const users = await getSql('SELECT COUNT(*) ... users')
StatsQueryUsers(ok) ==
    /\ stats.pc = "idle"
    /\ IF ok
       THEN /\ free > 0
            /\ stats' = [stats EXCEPT !.pc = "schemes", !.users = CountUsers]
       ELSE stats' = StatsFailed
    /\ UNCHANGED <<storeVars, uploads, free, apply, detail, reg, admin, browse,
                   login, server, mine, seen>>

\* const schemes = await getSql('SELECT COUNT(*) ... schemes')
StatsQuerySchemes(ok) ==
    /\ stats.pc = "schemes"
    /\ IF ok
       THEN /\ free > 0
            /\ stats' = [stats EXCEPT !.pc = "pending", !.schemes = CountSchemes]
       ELSE stats' = StatsFailed
    /\ UNCHANGED <<storeVars, uploads, free, apply, detail, reg, admin, browse,
                   login, server, mine, seen>>

\* const pending = await getSql("SELECT COUNT(*) ... WHERE status = 'Pending'")
\* res.json({total_users, total_schemes, pending_applications})
StatsQueryPending(ok) ==
    /\ stats.pc = "pending"
    /\ IF ok
       THEN /\ free > 0
            /\ stats' = [stats EXCEPT !.pc = "responded", !.pending = CountPending,
                                      !.status = 200]
       ELSE stats' = StatsFailed
    /\ UNCHANGED <<storeVars, uploads, free, apply, detail, reg, admin, browse,
                   login, server, mine, seen>>

\* the response has been delivered; the next request may arrive
StatsEnd ==
    /\ stats.pc = "responded"
    /\ stats' = StatsIdle
    /\ UNCHANGED <<storeVars, uploads, free, apply, detail, reg, admin, browse,
                   login, server, mine, seen>>

Stats ==
    \/ \E ok \in BOOLEAN : StatsQueryUsers(ok)
    \/ \E ok \in BOOLEAN : StatsQuerySchemes(ok)
    \/ \E ok \in BOOLEAN : StatsQueryPending(ok)
    \/ StatsEnd

\* a dashboard session: one application awaits review while a visitor
\* registers and the admin decides
InitStats ==
    /\ users = SeedUsers
    /\ nextUserId = 2
    /\ emailKey = TRUE
    /\ schemes = SeedCatalog
    /\ applications = {ApplicationRow(1, SeedPayload, 0)}
    /\ documents = {}
    /\ nextAppId = 2
    /\ nextDocId = 1
    /\ Quiet

NextStats ==
    \/ Stats
    \/ \E p \in RegReqs : Register(p)
    \/ \E id \in {a.id : a \in applications}, ok \in BOOLEAN : Approve(id, ok)
    \/ \E id \in {a.id : a \in applications}, ok \in BOOLEAN : Reject(id, ok)

SpecStats == InitStats /\ [][NextStats]_vars

\* ------------------------------------------------------ POST /api/login
LoginResponse(st, e) == [status |-> st, error |-> e, user |-> NoUser]

\* JavaScript !password: true for a missing field and for the empty string
NoSecret(pw) == pw.t = "undefined" \/ (pw.t = "string" /\ pw.s = "")

\* the request arrives: the handler validates and runs up to its first await
LoginRequest(p, e, pw) ==
    /\ login[p].pc = "idle"
    /\ login' = [login EXCEPT ![p] =
            IF e = "" \/ NoSecret(pw)
            THEN [@ EXCEPT !.email = e, !.password = pw, !.pc = "done",
                           !.resp = LoginResponse(400, "Missing fields")]
            ELSE [@ EXCEPT !.email = e, !.password = pw, !.pc = "select"]]
    /\ UNCHANGED <<storeVars, uploads, free, apply, detail, reg, admin, browse,
                   stats, server, mine, seen>>

\* const user = await getSql('SELECT ... FROM users WHERE email = ?')
\* if (!user) return 401
LoginSelect(p, ok) ==
    /\ login[p].pc = "select"
    /\ IF ok
       THEN /\ free > 0
            /\ login' = [login EXCEPT ![p] =
                    IF \E u \in users : u.email = login[p].email
                    THEN [@ EXCEPT !.pc = "compare",
                                   !.user = CHOOSE u \in users : u.email = login[p].email]
                    ELSE [@ EXCEPT !.pc = "done",
                                   !.resp = LoginResponse(401, "Invalid credentials")]]
       ELSE login' = [login EXCEPT ![p] =
                    [@ EXCEPT !.pc = "done", !.fault = TRUE,
                              !.resp = LoginResponse(500, "Server error")]]
    /\ UNCHANGED <<storeVars, uploads, free, apply, detail, reg, admin, browse,
                   stats, server, mine, seen>>

\* const ok = await bcrypt.compare(password, user.password_hash)
\* bcryptjs rejects with "Illegal arguments" unless both are strings; the
\* catch block then answers 500
LoginCompare(p) ==
    /\ login[p].pc = "compare"
    /\ login' = [login EXCEPT ![p] =
            IF login[p].password.t # "string"
            THEN [@ EXCEPT !.pc = "done", !.resp = LoginResponse(500, "Server error")]
            ELSE IF login[p].user.password_hash # Hash(login[p].password.s)
            THEN [@ EXCEPT !.pc = "done", !.resp = LoginResponse(401, "Invalid credentials")]
            ELSE [@ EXCEPT !.pc = "done",
                           !.resp = [status |-> 200, error |-> "",
                                     user |-> [login[p].user EXCEPT !.password_hash = <<>>]]]]
    /\ UNCHANGED <<storeVars, uploads, free, apply, detail, reg, admin, browse,
                   stats, server, mine, seen>>

\* req.body fields tried
LoginPasswords == {NoPassword, Str("pw"), Str("bad"), Digits("123456")}

Login(p) ==
    \/ \E e \in Emails, pw \in LoginPasswords : LoginRequest(p, e, pw)
    \/ \E ok \in BOOLEAN : LoginSelect(p, ok)
    \/ LoginCompare(p)

NextLogin == \E p \in LoginReqs : Login(p)

SpecLogin == Init /\ [][NextLogin]_vars

\* ------------------------------------------ submission and review together
\* applicants submit well-formed applications (all within one tick of the
\* store clock) while the admin decides; the admin names any id handed out so far, or the next one, which no
\* application has yet
SubmitFrom(p, D, F) ==
    \/ \E d \in D, fs \in F : ApplyRequest(p, d, fs)
    \/ \E ok \in BOOLEAN : ApplyGetConnection(p, ok)
    \/ \E ok \in BOOLEAN : ApplyBeginTransaction(p, ok)
    \/ \E ok \in BOOLEAN : ApplyInsertApplication(p, ok, 0)
    \/ \E ok \in BOOLEAN : ApplyInsertDocument(p, ok)
    \/ \E ok \in BOOLEAN : ApplyCommit(p, ok)
    \/ \E ok \in BOOLEAN : ApplyRollback(p, ok)
    \/ ApplyRelease(p)

Submit(p) == SubmitFrom(p, {SeedPayload}, SUBSET UploadFields)

NextReview ==
    \/ \E p \in ApplyReqs : Submit(p)
    \/ \E id \in 1..nextAppId, ok \in BOOLEAN : Approve(id, ok)
    \/ \E id \in 1..nextAppId, ok \in BOOLEAN : Reject(id, ok)

SpecReview == Init /\ [][NextReview]_vars

\* ------------------------------------------------------ process startup
\* app.listen(PORT, ...): one more listen call; it is early when the startup
\* check has not resolved yet
Listen(sv) == [sv EXCEPT !.listens = @ + 1, !.early = @ \/ ~sv.tested]

\* the process before its module body runs
Booting(rev) ==
    [pc |-> "load", listens |-> 0, tested |-> FALSE, early |-> FALSE, revision |-> rev]

\* the module body runs to its end: the pool is created, the startup check
\* pool.getConnection() is issued (its callbacks run later) and the routes are
\* registered; server.js then calls app.listen at its last line
ModuleLoad ==
    /\ server.pc = "load"
    /\ server' = IF server.revision = "server.js"
                 THEN [Listen(server) EXCEPT !.pc = "testing"]
                 ELSE [server EXCEPT !.pc = "testing"]
    /\ UNCHANGED <<storeVars, uploads, free, apply, detail, reg, admin, browse,
                   stats, login, mine, seen>>

\* the startup check resolves. then: conn.release(); app.listen(PORT, ...).
\* catch: process.exit(1). In server.js this listen is the second one on the
\* same port: it fails with EADDRINUSE, which the process survives or not
\* depending on the Express version (crash is TRUE when it does not).
StartupCheck(ok, crash) ==
    /\ server.pc = "testing"
    /\ server' =
         IF ok
         THEN [Listen([server EXCEPT !.tested = TRUE]) EXCEPT
                  !.pc = IF server.listens > 0 /\ crash THEN "exited" ELSE "up"]
         ELSE [server EXCEPT !.pc = "exited"]
    /\ UNCHANGED <<storeVars, uploads, free, apply, detail, reg, admin, browse,
                   stats, login, mine, seen>>

\* the process accepts requests
Listening == server.listens > 0 /\ server.pc # "exited"

InitStartup ==
    /\ users = SeedUsers
    /\ nextUserId = 2
    /\ emailKey = TRUE
    /\ schemes = SeedCatalog
    /\ applications = {}
    /\ documents = {}
    /\ nextAppId = 1
    /\ nextDocId = 1
    /\ uploads = {}
    /\ free = PoolSize
    /\ apply = [p \in ApplyReqs |-> ApplyIdle]
    /\ detail = DetailIdle
    /\ reg = [p \in RegReqs |-> RegIdle]
    /\ admin = AdminIdle
    /\ browse = BrowseIdle
    /\ stats = StatsIdle
    /\ login = [p \in LoginReqs |-> LoginIdle]
    /\ server \in {Booting(rev) : rev \in {"server.js", "part_000"}}
    /\ mine = MineIdle
    /\ seen = {CountsOf(users, schemes, applications)}

\* the process starts and, once it listens, answers login requests
NextStartup ==
    \/ ModuleLoad
    \/ \E ok \in BOOLEAN, crash \in BOOLEAN : StartupCheck(ok, crash)
    \/ \E p \in LoginReqs : Listening /\ Login(p)

SpecStartup == InitStartup /\ [][NextStartup]_vars

\* ------------------------------------------------ the amount of an apply
\* values of data.amount_applied tried: missing, null, 0, a positive number,
\* the empty string, a text that is not a number
Amounts ==
    {NoAmount, NullAmount, AmountNum(0), AmountNum(5000), AmountStr(""), AmountStr("abc")}
AmountPayloads == {[SeedPayload EXCEPT !.amount_applied = v] : v \in Amounts}

\* applications, with or without a photo, whose payloads differ in
\* amount_applied
NextAmount == \E p \in ApplyReqs : SubmitFrom(p, AmountPayloads, {{}, {"photo"}})

SpecAmount == Init /\ [][NextAmount]_vars

\* ------------------------------------ GET /api/my-applications/:userId
\* ids of the Application rows inserted by transactions still open
Uncommitted == UNION {{a.id : a \in apply[p].tx.apps} : p \in ApplyReqs}

\* one row of the listing: the application joined with its scheme
MineRow(a) ==
    [application_id |-> a.id, scheme_name |-> SchemeName(a.scheme_id),
     application_date |-> a.application_date, status |-> a.status]

\* ORDER BY a.application_date DESC
DescendingByDate(f) ==
    \A i, j \in DOMAIN f : i < j => f[i].application_date >= f[j].application_date

\* mutant of SelectMine: the query runs READ UNCOMMITTED and also returns
\* the rows of open transactions
SelectMineDirty(uid) ==
    {f \in Orderings({MineRow(a) : a \in
            {r \in applications \cup UNION {apply[p].tx.apps : p \in ApplyReqs} : r.user_id = uid}}) :
        DescendingByDate(f)}

\* SELECT ... FROM applications a LEFT JOIN schemes s ... WHERE a.user_id = ?
\* ORDER BY a.application_date DESC   (the result sets the store may return)
SelectMine(uid) ==
    {f \in Orderings({MineRow(a) : a \in {r \in applications : r.user_id = uid}}) :
        DescendingByDate(f)}

\* const rows = await allSql(sql, [userId]); res.json({ applications: rows })
MyApplications(uid, ok) ==
    /\ IF ok
       THEN /\ free > 0
            /\ \E rows \in SelectMine(uid) :
                 mine' = [userId |-> uid, status |-> 200, rows |-> rows, dirty |-> Uncommitted]
       ELSE mine' = [userId |-> uid, status |-> 500, rows |-> <<>>, dirty |-> Uncommitted]
    /\ UNCHANGED <<storeVars, uploads, free, apply, detail, reg, admin, browse,
                   stats, login, server, seen>>

\* ----------------------------------------- submission together with reads
\* one applicant submits while the four read routes are being called
Applicant == CHOOSE p \in ApplyReqs : TRUE

NextReads ==
    \/ SubmitFrom(Applicant, {SeedPayload}, SUBSET UploadFields)
    \/ Detail
    \/ \E uid \in {u.id : u \in users}, ok \in BOOLEAN : MyApplications(uid, ok)
    \/ \E ok \in BOOLEAN : PendingApplicationsRevised(ok)
    \/ Stats

SpecReads == Init /\ [][NextReads]_vars

Next ==
    \/ \E p \in ApplyReqs : Apply(p)
    \/ Detail

Spec == Init /\ [][Next]_vars

\* =====================================================================
\* Properties of the apply workflow, checked under Spec
\* =====================================================================
VisibleApplication(id) == \E a \in applications : a.id = id
DocTypes(id) == {d.doc_type : d \in SelectDocuments(id)}
Ended(p) == apply[p].pc = "done"
\* a store step that threw after the Application insert had succeeded
FailedAfterInsert(p) == apply[p].appId # 0 /\ apply[p].failed # "none"

\* C1: apply is all-or-nothing. A request that ended after a step following
\* its Application insert threw (a Document insert or the commit) has left no
\* Application row and no Document row visible; a request that ended with
\* success has its Application row and one Document row per uploaded file
\* visible; and at no time is a Document of an attempt visible without the
\* attempt's Application and all its other Documents.
ApplyAllOrNothing ==
    \A p \in ApplyReqs :
        /\ (Ended(p) /\ FailedAfterInsert(p)) =>
                (~VisibleApplication(apply[p].appId) /\ SelectDocuments(apply[p].appId) = {})
        /\ (Ended(p) /\ apply[p].resp.status = 200) =>
                (/\ VisibleApplication(apply[p].appId)
                 /\ DocTypes(apply[p].appId) = apply[p].files
                 /\ Cardinality(SelectDocuments(apply[p].appId)) = Cardinality(apply[p].files))
        /\ apply[p].appId # 0 =>
                IF VisibleApplication(apply[p].appId)
                THEN DocTypes(apply[p].appId) = apply[p].files
                ELSE SelectDocuments(apply[p].appId) = {}

\* C1 witness: one request ended after its commit or a Document insert
\* threw, with files uploaded, while another ended with success and a file.
ApplyAllOrNothingWitness ==
    \E p, q \in ApplyReqs :
        /\ Ended(p) /\ apply[p].failed \in {"insertPhoto", "insertMark10", "commit"}
        /\ apply[p].files # {}
        /\ Ended(q) /\ apply[q].resp.status = 200 /\ apply[q].files # {}

\* C4: every connection apply acquired is back in the pool once the request
\* has ended, whatever the exit path; a connection released after a step
\* threw was rolled back first; and when all requests have ended the pool is
\* whole again.
Held == {p \in ApplyReqs : apply[p].conn = "held"}
ApplyReturnsConnection ==
    /\ \A p \in ApplyReqs : Ended(p) => apply[p].conn # "held"
    /\ \A p \in ApplyReqs :
            (apply[p].conn = "released" /\ apply[p].failed # "none") => apply[p].rolled
    /\ free = PoolSize - Cardinality(Held)
    /\ (\A p \in ApplyReqs : Ended(p)) => free = PoolSize

\* C4 witness: all requests have ended; one of them acquired a connection and
\* its rollback threw, another left through the 400 return, and the pool is
\* whole.
ApplyReturnsConnectionWitness ==
    /\ \A p \in ApplyReqs : Ended(p)
    /\ \E p \in ApplyReqs : apply[p].escaped /\ apply[p].conn = "released"
    /\ \E p \in ApplyReqs : apply[p].resp.status = 400
    /\ free = PoolSize

\* C5 (as claimed): every apply request in which a store step threw, the
\* rollback of the error path included, ends with exactly one response, the
\* generic 500.
ApplyStoreFailureAnswered500 ==
    \A p \in ApplyReqs :
        (Ended(p) /\ (apply[p].failed # "none" \/ apply[p].escaped)) =>
            (apply[p].nresp = 1 /\ apply[p].resp.status = 500)

\* the payload is a record (or no data field at all, read as {}) without a
\* usable user or scheme reference
LacksReference(d) ==
    d.kind \in {"absent", "object"} /\ (Falsy(d.user_id) \/ Falsy(d.scheme_id))

\* C6: an apply request whose payload lacks the user or the scheme reference
\* is answered 400, once, without having touched the relational store: no
\* connection acquired, no transaction, no row written, no store step tried.
ApplyRejectsMissingReference ==
    \A p \in ApplyReqs :
        (apply[p].pc # "idle" /\ LacksReference(apply[p].data)) =>
            /\ Ended(p)
            /\ apply[p].resp.status = 400 /\ apply[p].nresp = 1
            /\ apply[p].conn = "undefined"
            /\ apply[p].tx = EmptyTx /\ apply[p].appId = 0
            /\ apply[p].failed = "none" /\ ~apply[p].rolled

\* C6 witness: a request with a user but no scheme reference, and files, has
\* been answered while another request holds the pool's connection.
ApplyRejectsMissingReferenceWitness ==
    \E p, q \in ApplyReqs :
        /\ apply[p].pc # "idle" /\ apply[p].data.kind = "object"
        /\ ~Falsy(apply[p].data.user_id) /\ Falsy(apply[p].data.scheme_id)
        /\ apply[p].resp.status = 400
        /\ apply[q].conn = "held" /\ apply[q].appId # 0

\* C8: the detail request for an id that a successful apply had already
\* returned answers (store faults aside) with that application and exactly
\* one Document per uploaded field: type the field name, filename the stored
\* name.
DetailShowsUploads ==
    \A p \in ApplyReqs :
        (/\ detail.pc = "responded"
         /\ detail.resp.status # 500
         /\ apply[p].resp.status = 200
         /\ apply[p].resp.applicationId = detail.id
         /\ detail.id \in detail.known) =>
            /\ detail.resp.status = 200
            /\ detail.resp.application.id = detail.id
            /\ {<<d.doc_type, d.filename>> : d \in detail.resp.documents}
                    = {<<f, StoredName(p, f)>> : f \in apply[p].files}
            /\ Cardinality(detail.resp.documents) = Cardinality(apply[p].files)
            /\ \A d \in detail.resp.documents : d.application_id = detail.id

\* C8 witness: apply returned N for a request with only a photo, and the
\* detail request for N issued afterwards lists one document of type photo.
DetailShowsUploadsWitness ==
    \E p \in ApplyReqs :
        /\ detail.pc = "responded" /\ detail.resp.status = 200
        /\ apply[p].resp.status = 200 /\ apply[p].resp.applicationId = detail.id
        /\ detail.id \in detail.known
        /\ apply[p].files = {"photo"}
        /\ {d.doc_type : d \in detail.resp.documents} = {"photo"}

\* =====================================================================
\* Properties of the admin review, checked under SpecAdmin
\* =====================================================================
Terminal == {"Approved", "Rejected"}

\* C3 (as claimed): once an application's status is Approved or Rejected, no
\* step changes it to a different value.
StatusSetOnce ==
    [][\A a \in applications : a.status \in Terminal =>
            \A b \in applications' : b.id = a.id => b.status = a.status]_vars

\* C7: an approve or reject request on an id that matches no application,
\* the store not failing, answers 200 and leaves the applications table as
\* it was: no row created, no status changed.
StatusUpdateOfMissingIdIsNoop ==
    [][\A id \in AdminIds :
            ((Approve(id, TRUE) \/ Reject(id, TRUE)) /\ ~VisibleApplication(id)) =>
                (applications' = applications /\ admin'.status = 200)]_vars

\* C7 witness: the last request was an approve of an id no application has,
\* answered 200, with Pending applications in the table.
StatusUpdateOfMissingIdWitness ==
    /\ admin.op = "approve" /\ admin.status = 200
    /\ ~VisibleApplication(admin.id)
    /\ \E a \in applications : a.status = "Pending"

PendingIds == {a.id : a \in {r \in applications : r.status = "Pending"}}
DateOf(id) == (CHOOSE a \in applications : a.id = id).application_date

RegValid(p) == reg[p].name # "" /\ reg[p].email # "" /\ reg[p].password # ""

\* C2 (as claimed): no two users rows share an email, and of the register
\* requests for one email (complete input, no store or bcrypt fault) that
\* have ended, at most one succeeded and every other one was answered 409.
RegisterOncePerEmail ==
    /\ \A u, v \in users : u.email = v.email => u = v
    /\ \A p \in RegReqs :
            (reg[p].pc = "done" /\ RegValid(p) /\ ~reg[p].fault) =>
                reg[p].resp.status \in {200, 409}
    /\ \A p, q \in RegReqs :
            (p # q /\ reg[p].resp.status = 200 /\ reg[q].resp.status = 200) =>
                reg[p].email # reg[q].email

\* =====================================================================
\* Properties of scheme browsing, checked under SpecSchemes
\* =====================================================================
Ids(f) == {f[i].id : i \in DOMAIN f}
RowIds(r) == {s.id : s \in r.rows}
\* what handler h returns for a query
ResultOf(h, query) == IF h = "server.js" THEN SchemesResult(query) ELSE SchemesResultRevised(query)
TypeAndYearOnly(query) ==
    /\ query.type # <<>> /\ query.academic_year # <<>>
    /\ query.q = <<>> /\ query.category = <<>> /\ query.international = <<>>

\* C9 (as claimed): a request with type=X and academic_year=Y, the store not
\* failing, returns exactly the schemes that the same handler returns both
\* for type=X alone and for academic_year=Y alone.
BrowseTypeYearIsIntersection ==
    (browse.handler # "none" /\ TypeAndYearOnly(browse.query)
        /\ ResultOf(browse.handler, browse.query).status = browse.status) =>
        /\ browse.status = 200
        /\ Ids(browse.rows) =
              RowIds(ResultOf(browse.handler, [NoQuery EXCEPT !.type = browse.query.type]))
              \cap RowIds(ResultOf(browse.handler,
                                   [NoQuery EXCEPT !.academic_year = browse.query.academic_year]))

\* the same statement for the later revision's handler alone
BrowseTypeYearIsIntersectionRevised ==
    browse.handler = "part_000" => BrowseTypeYearIsIntersection

\* =====================================================================
\* Properties of the admin statistics, checked under SpecStats
\* =====================================================================
\* C11: each count of a stats response is the true count at the moment its
\* own query ran (and is carried unchanged into the response); nothing ties
\* the three moments together.
StatsCountsAreCurrent ==
    [][/\ (stats.pc = "idle" /\ stats'.pc = "schemes") =>
            stats'.users = Cardinality(users)
       /\ (stats.pc = "schemes" /\ stats'.pc = "pending") =>
            (stats'.schemes = Cardinality(schemes) /\ stats'.users = stats.users)
       /\ (stats.pc = "pending" /\ stats'.status = 200) =>
            /\ stats'.pending = Cardinality({a \in applications : a.status = "Pending"})
            /\ stats'.users = stats.users /\ stats'.schemes = stats.schemes]_vars

\* C11 witness: a stats response whose triple is the count triple of no store
\* state there has ever been.
StatsTornWitness ==
    /\ stats.pc = "responded" /\ stats.status = 200
    /\ <<stats.users, stats.schemes, stats.pending>> \notin seen

\* =====================================================================
\* Properties of login, checked under SpecLogin
\* =====================================================================
Registered(e) == \E u \in users : u.email = e
\* request p supplied an email and a password and the store did not fail
LoginAnswered(p) ==
    /\ login[p].pc = "done" /\ ~login[p].fault
    /\ login[p].email # "" /\ ~NoSecret(login[p].password)
\* the password of request p is not the password of the account it names
WrongPassword(p) ==
    \A u \in users : u.email = login[p].email =>
        ~(login[p].password.t = "string" /\ u.password_hash = Hash(login[p].password.s))

\* C12 (as claimed): of two answered login requests, one naming an
\* unregistered email and one naming a registered email with a wrong password,
\* both get the same response, a 401.
LoginFailuresIndistinguishable ==
    \A p, q \in LoginReqs :
        (LoginAnswered(p) /\ LoginAnswered(q)
            /\ ~Registered(login[p].email)
            /\ Registered(login[q].email) /\ WrongPassword(q)) =>
        (login[p].resp = login[q].resp /\ login[p].resp.status = 401)

\* the same statement for passwords sent as JSON strings only
LoginStringFailuresIndistinguishable ==
    \A p, q \in LoginReqs :
        (LoginAnswered(p) /\ LoginAnswered(q)
            /\ login[p].password.t = "string" /\ login[q].password.t = "string"
            /\ ~Registered(login[p].email)
            /\ Registered(login[q].email) /\ WrongPassword(q)) =>
        (login[p].resp = login[q].resp /\ login[p].resp.status = 401)

\* =====================================================================
\* Properties of submission together with review, checked under SpecReview
\* =====================================================================
\* C13: every visible Document row references a visible Application row.
NoOrphanDocument ==
    \A d \in documents : \E a \in applications : a.id = d.application_id

\* C13 witness: one apply has committed an Application with a Document and
\* the admin has decided on it, while another apply that had inserted its
\* rows was rolled back.
NoOrphanDocumentWitness ==
    /\ \E d \in documents : \E a \in applications :
            a.id = d.application_id /\ a.status \in {"Approved", "Rejected"}
    /\ \E p \in ApplyReqs :
            /\ apply[p].rolled /\ apply[p].pc = "done"
            /\ apply[p].failed \in {"insertMark10", "commit"}
            /\ "photo" \in apply[p].files

\* =====================================================================
\* Properties of process startup, checked under SpecStartup
\* =====================================================================
\* C14 (as claimed): no listen call happens before the startup check has
\* resolved, listen is called at most once, and a process whose check failed
\* has exited without ever listening.
ListenOnlyAfterStartupCheck ==
    /\ ~server.early
    /\ server.listens <= 1
    /\ (server.pc = "exited" /\ ~server.tested) => server.listens = 0

\* the same statement for the later revision alone
ListenOnlyAfterStartupCheckRevised ==
    server.revision = "part_000" => ListenOnlyAfterStartupCheck

\* =====================================================================
\* Properties of the Document Store, checked under Spec
\* =====================================================================
\* the stored file of upload field f of request p is named by a Document row
Referenced(p, f) == \E d \in documents : d.filename = StoredName(p, f)

\* C15: every file multer stored for an apply request stays in the Document
\* Store, whatever became of the request.
UploadsAreKept ==
    \A p \in ApplyReqs : \A f \in apply[p].files : StoredName(p, f) \in uploads

\* C15 witness: one apply with files was rolled back and answered 500,
\* another with files was rejected with 400; both are over, and their files
\* are in the Document Store with no Document row naming them.
UploadsAreKeptWitness ==
    \E p, q \in ApplyReqs :
        /\ apply[p].pc = "done" /\ apply[p].rolled /\ apply[p].resp.status = 500
        /\ apply[q].pc = "done" /\ apply[q].resp.status = 400
        /\ apply[p].files # {} /\ apply[q].files # {}
        /\ \A f \in apply[p].files : StoredName(p, f) \in uploads /\ ~Referenced(p, f)
        /\ \A f \in apply[q].files : StoredName(q, f) \in uploads /\ ~Referenced(q, f)

\* =====================================================================
\* Properties of the stored amount, checked under SpecAmount
\* =====================================================================
\* the Application rows written by request p, committed or not
RowsOf(p) == apply[p].tx.apps \cup {a \in applications : a.id = apply[p].appId}
\* request p has executed its INSERT INTO applications
InsertIssued(p) == apply[p].appId # 0 \/ apply[p].failed = "insertApplication"

\* C16 (as claimed): the amount on the row is the payload's amount_applied
\* when that is a number (0 included) and NULL otherwise, and no text is ever
\* bound as the amount of an INSERT.
AmountStoredAsSupplied ==
    \A p \in ApplyReqs :
        /\ \A a \in RowsOf(p) :
              a.amount_applied = IF apply[p].data.amount_applied.t = "number"
                                 THEN apply[p].data.amount_applied
                                 ELSE NullAmount
        /\ InsertIssued(p) => AmountParam(apply[p].data.amount_applied).t # "string"

\* =====================================================================
\* Properties of reads during submission, checked under SpecReads
\* =====================================================================
CommittedIds == {a.id : a \in applications}
\* the files of the apply that inserted application id
FilesOf(id) == UNION {apply[p].files : p \in {q \in ApplyReqs : apply[q].appId = id}}

\* C17: whenever a read route answers, every Application it returns (or
\* counts) is committed, and a detail response carries one Document for each
\* file of the Application's apply.
ReadsSeeOnlyCommitted ==
    [][/\ (detail'.resp # detail.resp /\ detail'.resp.status = 200) =>
            /\ detail'.resp.application.id \in CommittedIds
            /\ {d.doc_type : d \in detail'.resp.documents} = FilesOf(detail'.resp.application.id)
            /\ Cardinality(detail'.resp.documents) =
                  Cardinality(FilesOf(detail'.resp.application.id))
       /\ (mine' # mine) =>
            \A i \in DOMAIN mine'.rows : mine'.rows[i].application_id \in CommittedIds
       /\ (admin' # admin /\ admin'.op = "pending") =>
            \A i \in DOMAIN admin'.rows : admin'.rows[i].id \in CommittedIds
       /\ (stats.pc = "pending" /\ stats'.status = 200) =>
            stats'.pending = Cardinality({a \in applications : a.status = "Pending"})]_vars

\* C17 witness: my-applications was answered with an empty list while the
\* applicant's transaction held an uncommitted Application; the transaction
\* then committed and detail returned the Application with both Documents.
ReadsSeeOnlyCommittedWitness ==
    /\ mine.status = 200 /\ mine.rows = <<>> /\ mine.dirty # {}
    /\ detail.resp.status = 200
    /\ detail.resp.application.id \in mine.dirty
    /\ Cardinality(detail.resp.documents) = 2

\* =====================================================================
\* Properties of the status over submission and review, checked under SpecReview
\* =====================================================================
\* C18: an Application that is Approved or Rejected is not Pending after any
\* step, so it is in no later pending list and in no later pending count.
NeverPendingAgain ==
    [][\A a \in applications : a.status \in Terminal => a.id \notin PendingIds']_vars

\* C18 witness: the admin's last request decided (with success) on an
\* application that is now Approved or Rejected, and both applies have
\* committed, one of them still Pending.
NeverPendingAgainWitness ==
    /\ admin.op \in {"approve", "reject"} /\ admin.status = 200
    /\ \E a \in applications : a.id = admin.id /\ a.status \in Terminal
    /\ \E b \in applications : b.status = "Pending"
    /\ \A p \in ApplyReqs : apply[p].resp.status = 200 /\ apply[p].pc = "done"

====
